---- MODULE Spec2Model ----
(***************************************************************************)
(* StringValidator (src/app.ts): a fluent builder that keeps a list of     *)
(* string rules and an evaluation routine `go` that type-gates an unknown  *)
(* value and then scans the rules in order, stopping at the first failure. *)
(*                                                                         *)
(* The model has one validator and one caller.  The constructor keeps the  *)
(* array it is handed, so until addRule allocates a new array this.rules   *)
(* is the array the caller still holds: `shared` records that aliasing and *)
(* the caller's changes to a shared array are steps of the model.          *)
(***************************************************************************)
EXTENDS Integers, Sequences, FiniteSets, TLC

VARIABLES
    rules,        \* this.rules: the contents of the array the validator refers to
    shared,       \* TRUE iff that array is the one the caller passed to the constructor
    hasList,      \* TRUE iff the constructor was given an array
    call,         \* the most recent call: [op, arg]
    returned,     \* <<r>> when the most recent call was go and returned r, else <<>>
    repeated,     \* TRUE iff the most recent call is a configuration call that repeats the call before it
    configured,   \* kind -> <<>> or <<rule>>: the rule of the latest configuration call of that kind
    removedAt     \* position of the first rule the latest addRule filtered out (0: none)

vars == <<rules, shared, hasList, call, returned, repeated,
          configured, removedAt>>

----------------------------------------------------------------------------
(* Bounds *)

MaxNum     == 2   \* numeric rule parameters range over 0..MaxNum
MaxInitLen == 2   \* longest array the caller hands to the constructor or grows it to

----------------------------------------------------------------------------
(* Values *)

Kinds == {"equal", "notEqual", "minLength", "maxLength"}

Strings == {"", "a", "bb"}
StrParams == {"a", "bb"}
Nums == 0..MaxNum

\* A JavaScript value of unknown type, as go receives it.
JsString(s) == [tag |-> "string", str |-> s, num |-> 0]
JsNumber(n) == [tag |-> "number", str |-> "", num |-> n]
JsOther(t)  == [tag |-> t, str |-> "", num |-> 0]
NonStringTags == {"null", "undefined", "array"}
JsValues == {JsString(s) : s \in Strings} \cup {JsOther(t) : t \in NonStringTags}
            \cup {JsNumber(42)}
JsUndefined == JsOther("undefined")

\* The `typeof` operator.
typeof(v) ==
    CASE v.tag = "null"  -> "object"
      [] v.tag = "array" -> "object"
      [] OTHER           -> v.tag

\* type StringRule
EqualRule(v)     == [type |-> "equal", value |-> v]
NotEqualRule(v)  == [type |-> "notEqual", value |-> v]
MinLengthRule(n) == [type |-> "minLength", min |-> n]
MaxLengthRule(n) == [type |-> "maxLength", max |-> n]

\* rules a caller puts into the array it hands to the constructor.
CallerRules == {MinLengthRule(2), EqualRule("a")}

RECURSIVE SeqsUpTo(_, _)
SeqsUpTo(S, n) ==
    IF n = 0 THEN {<<>>}
    ELSE LET shorter == SeqsUpTo(S, n - 1)
         IN  shorter \cup {Append(q, e) : q \in shorter, e \in S}

\* type Result<string>
Success(value) == [ok |-> TRUE, value |-> value]
Failure(msg)   == [ok |-> FALSE, message |-> msg]

----------------------------------------------------------------------------
(* The validator's rule list *)

\* A removal written as splice() inside a forward index loop: the element that
\* follows a removed one is never looked at.
RECURSIVE filterSpliceSkip(_, _)
filterSpliceSkip(rs, type) ==
    IF rs = <<>> THEN <<>>
    ELSE IF Head(rs).type # type
         THEN <<Head(rs)>> \o filterSpliceSkip(Tail(rs), type)
         ELSE IF Tail(rs) = <<>> THEN <<>>
              ELSE <<Head(Tail(rs))>> \o filterSpliceSkip(Tail(Tail(rs)), type)

\* this.rules.filter(r => r.type !== type)
RECURSIVE filter(_, _)
filter(rs, type) ==
    IF rs = <<>> THEN <<>>
    ELSE IF Head(rs).type # type
         THEN <<Head(rs)>> \o filter(Tail(rs), type)
         ELSE filter(Tail(rs), type)

\* addRule that forgets to filter: [...this.rules, rule]
addRuleNoFilter(rs, rule) == rs \o <<rule>>

\* addRule that overwrites the rule of the same type where it stands
addRuleInPlace(rs, rule) ==
    IF \E i \in 1..Len(rs) : rs[i].type = rule.type
    THEN [i \in 1..Len(rs) |-> IF rs[i].type = rule.type THEN rule ELSE rs[i]]
    ELSE rs \o <<rule>>

\* private addRule: returns a new array, [...filtered, rule]
addRule(rs, rule) == filter(rs, rule.type) \o <<rule>>

\* Position of the first element of rs that has the given type (0: none).
FirstOfType(rs, type) ==
    IF \E i \in 1..Len(rs) : rs[i].type = type
    THEN CHOOSE i \in 1..Len(rs) :
            /\ rs[i].type = type
            /\ \A j \in 1..(i - 1) : rs[j].type # type
    ELSE 0

----------------------------------------------------------------------------
(* Evaluation *)

\* checkRule with the maxLength comparison off by one (>= for >)
checkRuleStrictMax(rule, value) ==
    CASE rule.type = "equal" ->
            IF rule.value # value
            THEN Failure("Value was expected to be " \o rule.value
                         \o " but was " \o value \o ".")
            ELSE Success(value)
      [] rule.type = "notEqual" ->
            IF rule.value = value
            THEN Failure("Value must not be " \o rule.value \o ".")
            ELSE Success(value)
      [] rule.type = "minLength" ->
            IF Len(value) < rule.min
            THEN Failure("String length must be greater than or equal to "
                         \o ToString(rule.min) \o " but was "
                         \o ToString(Len(value)) \o ".")
            ELSE Success(value)
      [] rule.type = "maxLength" ->
            IF Len(value) >= rule.max
            THEN Failure("String length must be less than or equal to "
                         \o ToString(rule.max) \o " but was "
                         \o ToString(Len(value)) \o ".")
            ELSE Success(value)
      [] OTHER -> Success(value)

\* checkRule(rule, value): value is a string here
checkRule(rule, value) ==
    CASE rule.type = "equal" ->
            IF rule.value # value
            THEN Failure("Value was expected to be " \o rule.value
                         \o " but was " \o value \o ".")
            ELSE Success(value)
      [] rule.type = "notEqual" ->
            IF rule.value = value
            THEN Failure("Value must not be " \o rule.value \o ".")
            ELSE Success(value)
      [] rule.type = "minLength" ->
            IF Len(value) < rule.min
            THEN Failure("String length must be greater than or equal to "
                         \o ToString(rule.min) \o " but was "
                         \o ToString(Len(value)) \o ".")
            ELSE Success(value)
      [] rule.type = "maxLength" ->
            IF Len(value) > rule.max
            THEN Failure("String length must be less than or equal to "
                         \o ToString(rule.max) \o " but was "
                         \o ToString(Len(value)) \o ".")
            ELSE Success(value)
      [] OTHER -> Success(value)

\* The loop run from the last rule to the first.
RECURSIVE goLoopBackwards(_, _)
goLoopBackwards(rs, value) ==
    IF rs = <<>> THEN Success(value)
    ELSE LET result == checkRule(rs[Len(rs)], value)
         IN  IF result.ok = FALSE THEN result
             ELSE goLoopBackwards(SubSeq(rs, 1, Len(rs) - 1), value)

\* The loop without its early return: a later failure overwrites an earlier one.
RECURSIVE goLoopLastFailure(_, _)
goLoopLastFailure(rs, value) ==
    IF rs = <<>> THEN Success(value)
    ELSE LET result == checkRule(Head(rs), value)
             rest   == goLoopLastFailure(Tail(rs), value)
         IN  IF rest.ok = FALSE THEN rest ELSE result

\* for (let rule of this.rules) { ... if (result.ok === false) return result }
RECURSIVE goLoop(_, _)
goLoop(rs, value) ==
    IF rs = <<>> THEN Success(value)
    ELSE LET result == checkRule(Head(rs), value)
         IN  IF result.ok = FALSE THEN result ELSE goLoop(Tail(rs), value)

\* go without the `value === null` branch: null reaches the typeof branch
goNoNullGate(rs, v) ==
    IF v.tag = "undefined"
    THEN Failure("StringValidator expected a string but received undefined.")
    ELSE IF typeof(v) # "string"
    THEN Failure("StringValidator expected a string but received "
                 \o typeof(v) \o ".")
    ELSE goLoop(rs, v.str)

\* go(value: unknown), as a function of the rule list it reads
go(rs, v) ==
    IF v.tag = "null"
    THEN Failure("StringValidator expected a string but received null.")
    ELSE IF v.tag = "undefined"
    THEN Failure("StringValidator expected a string but received undefined.")
    ELSE IF typeof(v) # "string"
    THEN Failure("StringValidator expected a string but received "
                 \o typeof(v) \o ".")
    ELSE goLoop(rs, v.str)

----------------------------------------------------------------------------
(* Construction *)

NoneConfigured == [k \in Kinds |-> <<>>]

\* What a caller may pass to `new StringValidator(rules?)`.
CtorArgs ==
    {[isArray |-> FALSE, items |-> <<>>]}
    \cup {[isArray |-> TRUE, items |-> q] : q \in SeqsUpTo(CallerRules, MaxInitLen)}

\* constructor(private rules?): keeps the array it is given, else a fresh []
constructor(arg) ==
    /\ hasList = arg.isArray
    /\ rules = IF arg.isArray THEN arg.items ELSE <<>>
    /\ shared = arg.isArray

Init ==
    /\ \E arg \in CtorArgs : constructor(arg)
    /\ call = [op |-> "new", arg |-> JsUndefined]
    /\ returned = <<>>
    /\ repeated = FALSE
    /\ configured = NoneConfigured
    /\ removedAt = 0

----------------------------------------------------------------------------
(* Configuration calls *)

\* this.rules = this.addRule(rule); return this
Configure(op, arg, rule) ==
    /\ rules' = addRule(rules, rule)
    /\ shared' = FALSE
    /\ call' = [op |-> op, arg |-> arg]
    /\ returned' = <<>>
    /\ repeated' = (call = [op |-> op, arg |-> arg])
    /\ configured' = [configured EXCEPT ![rule.type] = <<rule>>]
    /\ removedAt' = FirstOfType(rules, rule.type)
    /\ UNCHANGED hasList

equals(value)    == Configure("equals", JsString(value), EqualRule(value))
notEquals(value) == Configure("notEquals", JsString(value), NotEqualRule(value))
minLength(min)   == Configure("minLength", JsNumber(min), MinLengthRule(min))
maxLength(max)   == Configure("maxLength", JsNumber(max), MaxLengthRule(max))
notEmpty         == Configure("notEmpty", JsUndefined, MinLengthRule(1))
empty            == Configure("empty", JsUndefined, MaxLengthRule(0))

----------------------------------------------------------------------------
(* Evaluation call *)

\* The rules that remain when the loop takes each rule off the array with shift().
RECURSIVE afterShift(_, _)
afterShift(rs, value) ==
    IF rs = <<>> THEN <<>>
    ELSE IF checkRule(Head(rs), value).ok = FALSE THEN Tail(rs)
         ELSE afterShift(Tail(rs), value)

\* go whose loop consumes the array: while ((rule = this.rules.shift())) ...
GoShift(v) ==
    /\ call' = [op |-> "go", arg |-> v]
    /\ returned' = <<go(rules, v)>>
    /\ repeated' = FALSE
    /\ removedAt' = 0
    /\ rules' = IF v.tag # "string" THEN rules ELSE afterShift(rules, v.str)
    /\ UNCHANGED <<shared, hasList, configured>>

Go(v) ==
    /\ call' = [op |-> "go", arg |-> v]
    /\ returned' = <<go(rules, v)>>
    /\ repeated' = FALSE
    /\ removedAt' = 0
    /\ UNCHANGED <<rules, shared, hasList, configured>>

----------------------------------------------------------------------------
(* The caller changes the array it passed to the constructor, while that     *)
(* array is still this.rules                                                *)

CallerStep(op, newItems) ==
    /\ shared
    /\ rules' = newItems
    /\ call' = [op |-> op, arg |-> JsUndefined]
    /\ returned' = <<>>
    /\ repeated' = FALSE
    /\ removedAt' = 0
    /\ UNCHANGED <<shared, hasList, configured>>

CallerPush(r) ==
    /\ Len(rules) < MaxInitLen
    /\ CallerStep("callerPush", Append(rules, r))

CallerPop ==
    /\ rules # <<>>
    /\ CallerStep("callerPop", SubSeq(rules, 1, Len(rules) - 1))

----------------------------------------------------------------------------

Next ==
    \/ \E value \in StrParams : equals(value)
    \/ \E value \in StrParams : notEquals(value)
    \/ \E min \in Nums : minLength(min)
    \/ \E max \in Nums : maxLength(max)
    \/ notEmpty
    \/ empty
    \/ \E v \in JsValues : Go(v)
    \/ \E r \in CallerRules : CallerPush(r)
    \/ CallerPop

Spec == Init /\ [][Next]_vars

----------------------------------------------------------------------------
(* What the specification says of rules, calls and messages *)

ConfigOps == {"equals", "notEquals", "minLength", "maxLength", "notEmpty", "empty"}
CallerOps == {"callerPush", "callerPop"}

\* The rule a configuration call stands for (spec 4.1, 4.2).
CallRule(c) ==
    CASE c.op = "equals"    -> [type |-> "equal", value |-> c.arg.str]
      [] c.op = "notEquals" -> [type |-> "notEqual", value |-> c.arg.str]
      [] c.op = "minLength" -> [type |-> "minLength", min |-> c.arg.num]
      [] c.op = "maxLength" -> [type |-> "maxLength", max |-> c.arg.num]
      [] c.op = "notEmpty"  -> [type |-> "minLength", min |-> 1]
      [] c.op = "empty"     -> [type |-> "maxLength", max |-> 0]

\* Per-kind check (spec 4.3): the rule fails for the candidate string s.
Fails(rule, s) ==
    CASE rule.type = "equal"     -> s # rule.value
      [] rule.type = "notEqual"  -> s = rule.value
      [] rule.type = "minLength" -> Len(s) < rule.min
      [] rule.type = "maxLength" -> Len(s) > rule.max

\* Failure message template of a rule (spec 4.3).
Message(rule, s) ==
    CASE rule.type = "equal" ->
            "Value was expected to be " \o rule.value \o " but was " \o s \o "."
      [] rule.type = "notEqual" ->
            "Value must not be " \o rule.value \o "."
      [] rule.type = "minLength" ->
            "String length must be greater than or equal to " \o ToString(rule.min)
            \o " but was " \o ToString(Len(s)) \o "."
      [] rule.type = "maxLength" ->
            "String length must be less than or equal to " \o ToString(rule.max)
            \o " but was " \o ToString(Len(s)) \o "."

FailingAt(rs, s) == {i \in 1..Len(rs) : Fails(rs[i], s)}
Earliest(I) == CHOOSE i \in I : \A j \in I : i <= j
CountOfKind(rs, k) == Cardinality({i \in 1..Len(rs) : rs[i].type = k})
Without(rs, k) == SelectSeq(rs, LAMBDA r : r.type # k)

GoOnString == call.op = "go" /\ call.arg.tag = "string"

----------------------------------------------------------------------------
(* Claims *)

C2_AtMostOneRulePerKind ==
    \A k \in Kinds : CountOfKind(rules, k) <= 1

\* C5: go given null, undefined or any other non-string returns the type-gate
\* Failure naming what it received, whatever rules are configured.
GateName(v) ==
    CASE v.tag = "null"      -> "null"
      [] v.tag = "undefined" -> "undefined"
      [] v.tag = "number"    -> "number"
      [] v.tag = "array"     -> "object"

C5_TypeGateBeforeRules ==
    (call.op = "go" /\ call.arg.tag # "string") =>
        returned = <<Failure("StringValidator expected a string but received "
                             \o GateName(call.arg) \o ".")>>

\* go has just been given null by a validator that holds rules.
C5_Witness ==
    /\ call.op = "go"
    /\ call.arg.tag = "null"
    /\ Len(rules) >= 2
    /\ returned # <<>>

ConfiguredKinds == {k \in Kinds : configured[k] # <<>>}

\* C3 as stated: once configuration calls have covered N distinct kinds, each
\* of them is held once with the parameter of its latest call and the
\* validator stores exactly N rules.
C3_ExactlyNRules ==
    ConfiguredKinds # {} =>
        /\ \A k \in ConfiguredKinds :
              /\ CountOfKind(rules, k) = 1
              /\ \E i \in 1..Len(rules) : rules[i] = configured[k][1]
        /\ Len(rules) = Cardinality(ConfiguredKinds)

\* C3 (amended): the rule of every configured kind is held exactly once and is
\* the one of the latest call of that kind, so N configured kinds account for
\* exactly N rules; these are all the rules of a validator that was built
\* without an initial list.
C3_ReplaceByKind ==
    /\ \A k \in ConfiguredKinds :
          /\ CountOfKind(rules, k) = 1
          /\ \E i \in 1..Len(rules) : rules[i] = configured[k][1]
    /\ call.op \in ConfigOps =>
          /\ CallRule(call).type \in ConfiguredKinds
          /\ configured[CallRule(call).type] = <<CallRule(call)>>
    /\ ~hasList => Len(rules) = Cardinality(ConfiguredKinds)

\* A validator built without a list has all four kinds configured, the latest
\* call having replaced an earlier rule of its kind.
C3_Witness ==
    /\ ~hasList
    /\ call.op \in ConfigOps
    /\ removedAt > 0
    /\ ~repeated
    /\ Cardinality(ConfiguredKinds) = 4

\* C4: a configuration call of kind K turns the sequence S into S without its
\* rules of kind K (the others in their order) followed by the new rule.
C4_FilterThenAppend ==
    [][call'.op \in ConfigOps =>
          rules' = Without(rules, CallRule(call').type) \o <<CallRule(call')>>]_vars

\* The latest call replaced a rule that was not the last one: the rule of that
\* kind moved behind rules of other kinds.
C4_Witness ==
    /\ call.op \in ConfigOps
    /\ removedAt > 0
    /\ removedAt < Len(rules)
    /\ Len(rules) >= 3

\* C7: a configuration call that repeats the call before it (same method, same
\* argument) leaves go's result unchanged for every input.
C7_RepeatedCallIdempotent ==
    [][(call'.op \in ConfigOps /\ call' = call) =>
          \A v \in JsValues : go(rules', v) = go(rules, v)]_vars

\* The same configuration call was made twice in a row on a validator holding
\* rules of other kinds too.
C7_Witness ==
    /\ repeated
    /\ call.op \in ConfigOps
    /\ Len(rules) >= 2

\* C8: when the rule at position i fails for a candidate, go's result is the
\* result on the first i rules alone, so sequences agreeing on 1..i give the
\* same result; a configuration call of a kind held only after position i
\* leaves the result unchanged.
PrefixDecides ==
    \A s \in Strings : \A i \in FailingAt(rules, s) :
        go(rules, JsString(s)) = go(SubSeq(rules, 1, i), JsString(s))

\* (a kind absent from 1..i for some failing i is absent up to the earliest failing rule)
LaterKindIrrelevant ==
    call'.op \in ConfigOps =>
        \A s \in Strings :
            (/\ FailingAt(rules, s) # {}
             /\ \A j \in 1..Earliest(FailingAt(rules, s)) :
                    rules[j].type # CallRule(call').type)
            => go(rules', JsString(s)) = go(rules, JsString(s))

C8_ShortCircuitIndependence ==
    []PrefixDecides /\ [][LaterKindIrrelevant]_vars

\* The latest call replaced the last of three or more rules by one with
\* another parameter, while an earlier rule fails for the string "a".
C8_Witness ==
    /\ call.op \in ConfigOps
    /\ Len(rules) >= 3
    /\ removedAt = Len(rules)
    /\ ~repeated
    /\ \E i \in FailingAt(rules, "a") : i < Len(rules)

\* C9: go leaves the rule sequence as it found it, and a go that follows a go
\* of the same value returns the same result.
C9_GoLeavesRulesAlone ==
    [][call'.op = "go" =>
          /\ rules' = rules
          /\ shared' = shared
          /\ (call = call' => returned' = returned)]_vars

\* go has just returned a Failure from a validator holding several rules.
C9_Witness ==
    /\ GoOnString
    /\ Len(rules) >= 2
    /\ returned # <<>>
    /\ ~returned[1].ok

\* C10: a change the caller makes to the list it passed to the constructor
\* does not change the rules the validator holds.
C10_CallerChangeInvisible ==
    [][call'.op \in CallerOps => rules' = rules]_vars

====
